---- MODULE Spec2Model ----
(***************************************************************************)
(* A model of paranoia.py: the organization engine (_create_orga), the     *)
(* organize and print commands around it, and the persistence codec       *)
(* (json.dumps + b64encode, b64decode + json.loads).                       *)
(*                                                                         *)
(* Strings are sequences of code points: <<65>> is "A", <<32>> is " ".     *)
(* A file of lines is a sequence of strings.  random.shuffle, random.sample*)
(* and random.choices are nondeterministic choices over every result the   *)
(* call can return.                                                        *)
(***************************************************************************)
EXTENDS Integers, Sequences, FiniteSets, TLC

VARIABLES
    config_exists,  \* whether root_dir/paranoia.yml exists
    paranoia_file,  \* the field declarations of paranoia.yml
    data_files,     \* root_dir/<field>.txt, for each declared field name
    orga_file,      \* root_dir/.organization
    run,            \* the record of the last run (see NoRun)
    wrote,          \* whether the last run wrote root_dir/.organization
    loaded          \* the table the last print command decoded

vars == <<config_exists, paranoia_file, data_files, orga_file, run, wrote, loaded>>

(***************************************************************************)
(* Bounds of the model.                                                    *)
(***************************************************************************)
\* the longest list of field declarations in paranoia.yml
MaxFields == 2
\* the largest number of entries in a <field>.txt file
MaxEntries == 3

(***************************************************************************)
(* Values.                                                                 *)
(***************************************************************************)
\* a path at which os.path.exists is false
NoFile == [exists |-> FALSE, content |-> <<>>]
\* a file and what it holds: lines for a data file, text for .organization
File(content) == [exists |-> TRUE, content |-> content]

FieldNames == {"player", "mission"}

\* dataclass DataField.  The field named player is declared is_player; the
\* other name may be declared either way.
DataField ==
    {f \in [name : FieldNames, is_player : BOOLEAN,
            can_repeat : BOOLEAN, can_skip : BOOLEAN] :
        f.name = "player" => f.is_player}

(***************************************************************************)
(* Sequence helpers.                                                       *)
(***************************************************************************)
Range(s) == {s[i] : i \in DOMAIN s}

\* the one-to-one maps of 1..k into 1..n: the ways to pick k positions in order
Injections(k, n) ==
    {p \in [1..k -> 1..n] : \A i, j \in 1..k : p[i] = p[j] => i = j}

(***************************************************************************)
(* The random module.                                                      *)
(***************************************************************************)
\* random.shuffle(x): every ordering of x
Shuffle(x) ==
    {[i \in 1..Len(x) |-> x[p[i]]] : p \in Injections(Len(x), Len(x))}

\* random.sample(population, k), 0 <= k <= len(population): k entries at
\* k different positions, in any order
Sample_WithReplacement(population, k) ==
    [1..k -> Range(population)]

Sample(population, k) ==
    {[i \in 1..k |-> population[p[i]]] : p \in Injections(k, Len(population))}

\* random.choices(population, k=k), population not empty: k entries, each
\* drawn from the whole population
Choices_Filler(population, k) ==
    [1..k -> {<<63>>}]

Choices(population, k) ==
    [1..k -> Range(population)]

(***************************************************************************)
(* Reading a data file: [line.strip() for line in f if line.strip()]       *)
(***************************************************************************)
\* the characters str.strip() removes that the modelled files hold
IsSpace(c) == c \in {9, 10, 13, 32}

RECURSIVE LStrip(_)
LStrip(s) ==
    IF s = <<>> THEN <<>>
    ELSE IF IsSpace(Head(s)) THEN LStrip(Tail(s))
    ELSE s

RECURSIVE RStrip(_)
RStrip(s) ==
    IF s = <<>> THEN <<>>
    ELSE IF IsSpace(s[Len(s)]) THEN RStrip(SubSeq(s, 1, Len(s) - 1))
    ELSE s

Strip(line) == RStrip(LStrip(line))

NonBlank(line) == Strip(line) # <<>>

ReadEntries(lines) ==
    LET kept == SelectSeq(lines, NonBlank)
    IN  [i \in 1..Len(kept) |-> Strip(kept[i])]

(***************************************************************************)
(* _create_orga: validation.                                               *)
(***************************************************************************)
\* len({field.name for field in fields}) != len(fields)
HasDuplicateNames(fields) ==
    Cardinality({fields[i].name : i \in DOMAIN fields}) # Len(fields)

\* len([0 for field in fields if field.is_player]) != 1
WrongPlayerFieldCount(fields) ==
    Cardinality({i \in DOMAIN fields : fields[i].is_player}) # 1

\* [field.name for field in fields if field.is_player][0]
PlayerFieldName(fields) ==
    LET first == CHOOSE i \in DOMAIN fields :
                     /\ fields[i].is_player
                     /\ \A j \in 1..(i - 1) : ~fields[j].is_player
    IN  fields[first].name

\* the index of the first field whose data file does not exist, 0 if none
RECURSIVE FirstMissing(_, _, _)
FirstMissing(fields, files, i) ==
    IF i > Len(fields) THEN 0
    ELSE IF ~files[fields[i].name].exists THEN i
    ELSE FirstMissing(fields, files, i + 1)

\* field_data, once every file was read
FieldData(fields, files) ==
    [n \in {fields[i].name : i \in DOMAIN fields} |-> ReadEntries(files[n].content)]

PlayerFlagsSet(field) ==
    field.is_player /\ (field.can_repeat \/ field.can_skip)

TooMany_Unchecked(field, count, player_count) ==
    FALSE

TooMany(field, count, player_count) ==
    ~field.can_skip /\ count > player_count

TooFew(field, count, player_count) ==
    ~field.can_repeat /\ count < player_count

\* the loop over the fields: the first check that fails ends the run
RECURSIVE CheckCounts(_, _, _, _)
CheckCounts(fields, field_data, player_count, i) ==
    IF i > Len(fields) THEN [err |-> "ok", field |-> 0]
    ELSE LET field == fields[i]
             count == Len(field_data[field.name])
         IN  IF PlayerFlagsSet(field)
                 THEN [err |-> "player_flags", field |-> i]
             ELSE IF TooMany(field, count, player_count)
                 THEN [err |-> "too_many", field |-> i]
             ELSE IF TooFew(field, count, player_count)
                 THEN [err |-> "too_few", field |-> i]
             ELSE CheckCounts(fields, field_data, player_count, i + 1)

(***************************************************************************)
(* _create_orga: generation.                                               *)
(***************************************************************************)
\* list(range(player_count)), shuffled
IdLists(player_count) ==
    Shuffle([i \in 1..player_count |-> i - 1])

\* [*player_list[1:], player_list[0]], for a player_list that is not empty
TargetList_Unrotated(player_list) ==
    player_list

TargetList_Reversed(player_list) ==
    [i \in 1..Len(player_list) |-> player_list[Len(player_list) + 1 - i]]

TargetList(player_list) ==
    Append(Tail(player_list), Head(player_list))

\* a call of random.shuffle, random.sample or random.choices draws a random
\* number when it has something to choose
ShuffleDraws(x) == IF Len(x) >= 2 THEN 1 ELSE 0

PickDraws(k) == IF k >= 1 THEN 1 ELSE 0

\* the sizing of one field's data to player_count entries: the results the
\* if / elif chain can leave in `data`, or the exception it raises
Resize(field, data, player_count) ==
    IF field.can_repeat /\ field.can_skip THEN
        IF player_count > Len(data)
        THEN {[err |-> "ValueError", data |-> <<>>, draws |-> 0]}
        ELSE {[err |-> "ok", data |-> d, draws |-> PickDraws(player_count)] :
                 d \in Sample(data, player_count)}
    ELSE IF Len(data) < player_count THEN
        IF data = <<>>
        THEN {[err |-> "IndexError", data |-> <<>>, draws |-> 0]}
        ELSE {[err |-> "ok", data |-> data \o c, draws |-> 1] :
                 c \in Choices(data, player_count - Len(data))}
    ELSE IF Len(data) > player_count THEN
        {[err |-> "ok", data |-> d, draws |-> PickDraws(player_count)] :
            d \in Sample(data, player_count)}
    ELSE {[err |-> "ok", data |-> data, draws |-> 0]}

\* one pass of the loop body for a field that is not the player field
FieldList(field, data, player_count) ==
    UNION {IF r.err # "ok" THEN {r}
           ELSE {[err |-> "ok", data |-> d, draws |-> r.draws + ShuffleDraws(r.data)] :
                    d \in Shuffle(r.data)} :
           r \in Resize(field, data, player_count)}

\* other_lists: the loop over the fields from index i on.  An exception ends
\* the loop with the draws made so far.
RECURSIVE OtherLists(_, _, _, _)
OtherLists(fields, field_data, player_count, i) ==
    IF i > Len(fields) THEN {[err |-> "ok", lists |-> <<>>, draws |-> 0]}
    ELSE IF fields[i].is_player
        THEN OtherLists(fields, field_data, player_count, i + 1)
    ELSE UNION {IF o.err # "ok"
                    THEN {[err |-> o.err, lists |-> <<>>, draws |-> o.draws]}
                ELSE {[err |-> r.err,
                       lists |-> IF r.err = "ok" THEN <<o.data>> \o r.lists ELSE <<>>,
                       draws |-> o.draws + r.draws] :
                         r \in OtherLists(fields, field_data, player_count, i + 1)} :
                o \in FieldList(fields[i], field_data[fields[i].name], player_count)}

\* [[col[i] for col in orga_table] for i in range(player_count)]
Transpose(id_list, player_list, target_list, other_lists, player_count) ==
    [i \in 1..player_count |->
        <<id_list[i], player_list[i], target_list[i]>>
            \o [k \in 1..Len(other_lists) |-> other_lists[k][i]]]

\* str < str: by code point, a proper prefix first
RECURSIVE StrLess(_, _)
StrLess(s, t) ==
    IF t = <<>> THEN FALSE
    ELSE IF s = <<>> THEN TRUE
    ELSE IF Head(s) # Head(t) THEN Head(s) < Head(t)
    ELSE StrLess(Tail(s), Tail(t))

RECURSIVE CellsLess(_, _)
CellsLess(a, b) ==
    IF b = <<>> THEN FALSE
    ELSE IF a = <<>> THEN TRUE
    ELSE IF Head(a) # Head(b) THEN StrLess(Head(a), Head(b))
    ELSE CellsLess(Tail(a), Tail(b))

\* list < list of two rows [id, str, ...]: the ids first, then the strings
RowLess(a, b) ==
    IF a[1] # b[1] THEN a[1] < b[1] ELSE CellsLess(Tail(a), Tail(b))

RECURSIVE Insert(_, _)
Insert(sorted, row) ==
    IF sorted = <<>> THEN <<row>>
    ELSE IF RowLess(row, Head(sorted)) THEN <<row>> \o sorted
    ELSE <<Head(sorted)>> \o Insert(Tail(sorted), row)

\* orga_table.sort(): ascending and stable
SortRows_Unsorted(rows) ==
    rows

RECURSIVE SortRows(_)
SortRows(rows) ==
    IF rows = <<>> THEN <<>>
    ELSE Insert(SortRows(SubSeq(rows, 1, Len(rows) - 1)), rows[Len(rows)])

\* the two assert statements
AssertsHold(orga_table, fields, player_count) ==
    /\ Len(orga_table) = player_count
    /\ \A r \in DOMAIN orga_table : Len(orga_table[r]) = 2 + Len(fields)

(***************************************************************************)
(* The record of one run: what it computed before it ended, how it ended   *)
(* (err), how many random draws it had made (draws), and for a run of      *)
(* _do_organize whether the organization file existed when it started.     *)
(***************************************************************************)
\* player_count is -1 and field_data is empty until the data files were read;
\* orga_table is the table returned when err = "ok"
NoRun ==
    [cmd |-> "none", force |-> FALSE, existed |-> FALSE,
     err |-> "none", err_field |-> 0,
     field_data |-> <<>>, player_count |-> -1,
     id_list |-> <<>>, player_list |-> <<>>, target_list |-> <<>>,
     other_lists |-> <<>>, orga_table |-> <<>>, draws |-> 0]

Failed(start, err) == [start EXCEPT !.err = err]

\* _create_orga up to the end of the validation loop: the run so far (start
\* is the record of the run that called it), with err = "ok" when every
\* check passed
Validate(fields, files, start) ==
    IF HasDuplicateNames(fields) THEN Failed(start, "duplicate_names")
    ELSE IF WrongPlayerFieldCount(fields) THEN Failed(start, "player_field_count")
    ELSE IF FirstMissing(fields, files, 1) # 0
        THEN [Failed(start, "data_not_found") EXCEPT
                 !.err_field = FirstMissing(fields, files, 1)]
    ELSE
    LET field_data == FieldData(fields, files)
        player_count == Len(field_data[PlayerFieldName(fields)])
        check == CheckCounts(fields, field_data, player_count, 1)
    IN  [start EXCEPT !.field_data = field_data,
                      !.player_count = player_count,
                      !.err = check.err,
                      !.err_field = check.field]

\* the rest of _create_orga, for a validated run v, with id_list and
\* player_list as random.shuffle left them and the loop over the other
\* fields ending as `others` (one of OtherLists)
Generate(fields, v, id_list, player_list, others) ==
    LET shuffled == [v EXCEPT
            !.id_list = id_list, !.player_list = player_list,
            !.draws = ShuffleDraws(id_list) + ShuffleDraws(player_list)]
    IN  IF player_list = <<>> THEN [shuffled EXCEPT !.err = "IndexError"]
        ELSE
        LET target_list == TargetList(player_list)
        IN  IF others.err # "ok"
                THEN [shuffled EXCEPT !.err = others.err,
                                      !.target_list = target_list,
                                      !.draws = @ + others.draws]
            ELSE
            LET orga_table == SortRows(Transpose(id_list, player_list,
                                  target_list, others.lists, v.player_count))
                asserted == AssertsHold(orga_table, fields, v.player_count)
            IN  [shuffled EXCEPT
                    !.target_list = target_list,
                    !.other_lists = others.lists,
                    !.draws = @ + others.draws,
                    !.err = IF asserted THEN "ok" ELSE "AssertionError",
                    !.orga_table = IF asserted THEN orga_table ELSE <<>>]

\* run_after is one way _create_orga(root_dir, paranoia_file) can end
CreateOrga(fields, files, start, run_after) ==
    LET v == Validate(fields, files, start)
    IN  IF v.err # "ok" THEN run_after = v
        ELSE \E id_list \in IdLists(v.player_count) :
             \E player_list \in Shuffle(v.field_data[PlayerFieldName(fields)]) :
             \E others \in OtherLists(fields, v.field_data, v.player_count, 1) :
                 run_after = Generate(fields, v, id_list, player_list, others)

(***************************************************************************)
(* The persistence codec.  A Python value is tagged with its type: an int, *)
(* a str (its code points) or a list (its items).                          *)
(***************************************************************************)
PyInt(n) == [t |-> "int", v |-> n]
PyStr(str) == [t |-> "str", v |-> str]
PyList(items) == [t |-> "list", v |-> items]

\* an organization table as the Python value it is: a list of rows, a row a
\* list of an int and strs
AsValue(orga_table) ==
    PyList([r \in 1..Len(orga_table) |->
        PyList([c \in 1..Len(orga_table[r]) |->
            IF c = 1 THEN PyInt(orga_table[r][c]) ELSE PyStr(orga_table[r][c])])])

\* the decimal digits of n >= 0
RECURSIVE Digits(_)
Digits(n) ==
    IF n < 10 THEN <<48 + n>> ELSE Digits(n \div 10) \o <<48 + (n % 10)>>

\* a hexadecimal digit, lower case
HexDigit(d) == IF d < 10 THEN 48 + d ELSE 87 + d

\* \uXXXX
UEscape(c) ==
    <<92, 117, HexDigit(c \div 4096), HexDigit((c \div 256) % 16),
      HexDigit((c \div 16) % 16), HexDigit(c % 16)>>

\* json.encoder's ESCAPE_ASCII for one character: the short escapes, the
\* printable ASCII characters as they are, \uXXXX for the rest (a surrogate
\* pair above U+FFFF)
EscapeChar_QuoteUnescaped(c) ==
    IF c = 92 THEN <<92, 92>>
    ELSE IF c = 10 THEN <<92, 110>>
    ELSE IF c = 13 THEN <<92, 114>>
    ELSE IF c = 9 THEN <<92, 116>>
    ELSE IF c = 8 THEN <<92, 98>>
    ELSE IF c = 12 THEN <<92, 102>>
    ELSE IF c >= 32 /\ c <= 126 THEN <<c>>
    ELSE IF c < 65536 THEN UEscape(c)
    ELSE UEscape(55296 + ((c - 65536) \div 1024))
             \o UEscape(56320 + ((c - 65536) % 1024))

EscapeChar(c) ==
    IF c = 34 THEN <<92, 34>>
    ELSE IF c = 92 THEN <<92, 92>>
    ELSE IF c = 10 THEN <<92, 110>>
    ELSE IF c = 13 THEN <<92, 114>>
    ELSE IF c = 9 THEN <<92, 116>>
    ELSE IF c = 8 THEN <<92, 98>>
    ELSE IF c = 12 THEN <<92, 102>>
    ELSE IF c >= 32 /\ c <= 126 THEN <<c>>
    ELSE IF c < 65536 THEN UEscape(c)
    ELSE UEscape(55296 + ((c - 65536) \div 1024))
             \o UEscape(56320 + ((c - 65536) % 1024))

RECURSIVE EscapeStr(_)
EscapeStr(str) ==
    IF str = <<>> THEN <<>> ELSE EscapeChar(Head(str)) \o EscapeStr(Tail(str))

\* json.dumps(value), default separators: the text as code points
RECURSIVE JsonDumps(_)
RECURSIVE JoinDumps(_)
JsonDumps(value) ==
    IF value.t = "int"
        THEN IF value.v < 0 THEN <<45>> \o Digits(-value.v) ELSE Digits(value.v)
    ELSE IF value.t = "str" THEN <<34>> \o EscapeStr(value.v) \o <<34>>
    ELSE <<91>> \o JoinDumps(value.v) \o <<93>>

JoinDumps(items) ==
    IF items = <<>> THEN <<>>
    ELSE IF Len(items) = 1 THEN JsonDumps(items[1])
    ELSE JsonDumps(items[1]) \o <<44, 32>> \o JoinDumps(Tail(items))

\* str.encode(): UTF-8
Utf8OfChar(c) ==
    IF c < 128 THEN <<c>>
    ELSE IF c < 2048 THEN <<192 + (c \div 64), 128 + (c % 64)>>
    ELSE IF c < 65536
        THEN <<224 + (c \div 4096), 128 + ((c \div 64) % 64), 128 + (c % 64)>>
    ELSE <<240 + (c \div 262144), 128 + ((c \div 4096) % 64),
           128 + ((c \div 64) % 64), 128 + (c % 64)>>

RECURSIVE Utf8Encode(_)
Utf8Encode(text) ==
    IF text = <<>> THEN <<>> ELSE Utf8OfChar(Head(text)) \o Utf8Encode(Tail(text))

\* bytes.decode(): UTF-8, of well-formed input
RECURSIVE Utf8Decode(_)
Utf8Decode(bytes) ==
    IF bytes = <<>> THEN <<>>
    ELSE IF bytes[1] < 128 THEN <<bytes[1]>> \o Utf8Decode(Tail(bytes))
    ELSE IF bytes[1] < 224
        THEN <<(bytes[1] - 192) * 64 + (bytes[2] - 128)>>
                 \o Utf8Decode(SubSeq(bytes, 3, Len(bytes)))
    ELSE IF bytes[1] < 240
        THEN <<(bytes[1] - 224) * 4096 + (bytes[2] - 128) * 64 + (bytes[3] - 128)>>
                 \o Utf8Decode(SubSeq(bytes, 4, Len(bytes)))
    ELSE <<(bytes[1] - 240) * 262144 + (bytes[2] - 128) * 4096
               + (bytes[3] - 128) * 64 + (bytes[4] - 128)>>
             \o Utf8Decode(SubSeq(bytes, 5, Len(bytes)))

\* the base64 alphabet: A-Z a-z 0-9 + /
B64Char(v) ==
    IF v < 26 THEN 65 + v
    ELSE IF v < 52 THEN 97 + (v - 26)
    ELSE IF v < 62 THEN 48 + (v - 52)
    ELSE IF v = 62 THEN 43 ELSE 47

IsB64Char(c) ==
    \/ c >= 65 /\ c <= 90
    \/ c >= 97 /\ c <= 122
    \/ c >= 48 /\ c <= 57
    \/ c = 43 \/ c = 47

B64Value(c) ==
    IF c >= 65 /\ c <= 90 THEN c - 65
    ELSE IF c >= 97 /\ c <= 122 THEN c - 97 + 26
    ELSE IF c >= 48 /\ c <= 57 THEN c - 48 + 52
    ELSE IF c = 43 THEN 62 ELSE 63

\* base64.b64encode(bytes): three bytes to four characters, = for padding
RECURSIVE B64Encode(_)
B64Encode(bytes) ==
    IF bytes = <<>> THEN <<>>
    ELSE IF Len(bytes) = 1 THEN
        <<B64Char(bytes[1] \div 4), B64Char((bytes[1] % 4) * 16), 61, 61>>
    ELSE IF Len(bytes) = 2 THEN
        <<B64Char(bytes[1] \div 4),
          B64Char((bytes[1] % 4) * 16 + (bytes[2] \div 16)),
          B64Char((bytes[2] % 16) * 4), 61>>
    ELSE
        <<B64Char(bytes[1] \div 4),
          B64Char((bytes[1] % 4) * 16 + (bytes[2] \div 16)),
          B64Char((bytes[2] % 16) * 4 + (bytes[3] \div 64)),
          B64Char(bytes[3] % 64)>>
            \o B64Encode(SubSeq(bytes, 4, Len(bytes)))

IsB64OrPad(c) == IsB64Char(c) \/ c = 61

\* the bytes of groups of four base64 characters
RECURSIVE B64Groups(_)
B64Groups(chars) ==
    IF chars = <<>> THEN <<>>
    ELSE
    LET a == B64Value(chars[1])
        b == B64Value(chars[2])
        c == B64Value(chars[3])
        d == B64Value(chars[4])
        rest == B64Groups(SubSeq(chars, 5, Len(chars)))
    IN  IF chars[3] = 61 THEN <<a * 4 + (b \div 16)>>
        ELSE IF chars[4] = 61
            THEN <<a * 4 + (b \div 16), (b % 16) * 16 + (c \div 4)>>
        ELSE <<a * 4 + (b \div 16), (b % 16) * 16 + (c \div 4), (c % 4) * 64 + d>>
                 \o rest

\* base64.b64decode(bytes): characters outside the alphabet are dropped; what
\* is left must come in groups of four (else binascii.Error)
B64Decode(bytes) ==
    LET chars == SelectSeq(bytes, IsB64OrPad)
    IN  IF Len(chars) % 4 # 0 THEN [ok |-> FALSE, bytes |-> <<>>]
        ELSE [ok |-> TRUE, bytes |-> B64Groups(chars)]

\* json.decoder: whitespace between tokens
IsJsonSpace(c) == c \in {32, 9, 10, 13}

RECURSIVE SkipSpace(_, _)
SkipSpace(text, i) ==
    IF i <= Len(text) /\ IsJsonSpace(text[i]) THEN SkipSpace(text, i + 1) ELSE i

IsDigit(c) == c >= 48 /\ c <= 57

IsHexDigit(c) == IsDigit(c) \/ (c >= 97 /\ c <= 102) \/ (c >= 65 /\ c <= 70)

HexValue(c) ==
    IF IsDigit(c) THEN c - 48 ELSE IF c >= 97 THEN c - 87 ELSE c - 55

\* the four hexadecimal digits at text[i..i+3], -1 if they are not there
Hex4At(text, i) ==
    IF i + 3 <= Len(text) /\ \A k \in i..(i + 3) : IsHexDigit(text[k])
    THEN HexValue(text[i]) * 4096 + HexValue(text[i + 1]) * 256
             + HexValue(text[i + 2]) * 16 + HexValue(text[i + 3])
    ELSE -1

\* a failed parse
ParseError == [ok |-> FALSE, value |-> PyInt(0), next |-> 0]

\* the character a short escape \x stands for, -1 for none
Unescaped(x) ==
    IF x \in {34, 92, 47} THEN x
    ELSE IF x = 98 THEN 8
    ELSE IF x = 102 THEN 12
    ELSE IF x = 110 THEN 10
    ELSE IF x = 114 THEN 13
    ELSE IF x = 116 THEN 9
    ELSE -1

\* py_scanstring: the string whose opening quote precedes text[i], with acc
\* the characters read so far
RECURSIVE ScanString(_, _, _)
ScanString(text, i, acc) ==
    IF i > Len(text) THEN ParseError
    ELSE IF text[i] = 34 THEN [ok |-> TRUE, value |-> PyStr(acc), next |-> i + 1]
    ELSE IF text[i] < 32 THEN ParseError
    ELSE IF text[i] # 92 THEN ScanString(text, i + 1, Append(acc, text[i]))
    ELSE IF i + 1 > Len(text) THEN ParseError
    ELSE IF text[i + 1] # 117 THEN
        IF Unescaped(text[i + 1]) = -1 THEN ParseError
        ELSE ScanString(text, i + 2, Append(acc, Unescaped(text[i + 1])))
    ELSE
    LET uni == Hex4At(text, i + 2)
        low == IF i + 7 <= Len(text) /\ text[i + 6] = 92 /\ text[i + 7] = 117
               THEN Hex4At(text, i + 8) ELSE -1
    IN  IF uni = -1 THEN ParseError
        ELSE IF uni >= 55296 /\ uni <= 56319 /\ low >= 56320 /\ low <= 57343
            THEN ScanString(text, i + 12,
                     Append(acc, 65536 + (uni - 55296) * 1024 + (low - 56320)))
        ELSE ScanString(text, i + 6, Append(acc, uni))

\* the digits from text[i] on: the number read so far and where it ends
RECURSIVE ScanDigits(_, _, _)
ScanDigits(text, i, n) ==
    IF i <= Len(text) /\ IsDigit(text[i])
    THEN ScanDigits(text, i + 1, n * 10 + (text[i] - 48))
    ELSE [n |-> n, next |-> i]

\* scan_once for the values a table is made of, and JSONArray
RECURSIVE ScanValue(_, _)
RECURSIVE ScanItems(_, _, _)
ScanValue(text, i) ==
    IF i > Len(text) THEN ParseError
    ELSE IF text[i] = 34 THEN ScanString(text, i + 1, <<>>)
    ELSE IF text[i] = 91 THEN
        LET j == SkipSpace(text, i + 1)
        IN  IF j <= Len(text) /\ text[j] = 93
            THEN [ok |-> TRUE, value |-> PyList(<<>>), next |-> j + 1]
            ELSE ScanItems(text, j, <<>>)
    ELSE IF IsDigit(text[i]) THEN
        LET d == ScanDigits(text, i, 0)
        IN  [ok |-> TRUE, value |-> PyInt(d.n), next |-> d.next]
    ELSE IF text[i] = 45 /\ i + 1 <= Len(text) /\ IsDigit(text[i + 1]) THEN
        LET d == ScanDigits(text, i + 1, 0)
        IN  [ok |-> TRUE, value |-> PyInt(-d.n), next |-> d.next]
    ELSE ParseError

ScanItems(text, i, acc) ==
    LET item == ScanValue(text, i)
        j == SkipSpace(text, item.next)
    IN  IF ~item.ok \/ j > Len(text) THEN ParseError
        ELSE IF text[j] = 93
            THEN [ok |-> TRUE, value |-> PyList(Append(acc, item.value)), next |-> j + 1]
        ELSE IF text[j] = 44
            THEN ScanItems(text, SkipSpace(text, j + 1), Append(acc, item.value))
        ELSE ParseError

\* json.loads(text): one value, whitespace around it allowed, nothing after
JsonLoads(text) ==
    LET parsed == ScanValue(text, SkipSpace(text, 1))
    IN  IF parsed.ok /\ SkipSpace(text, parsed.next) = Len(text) + 1
        THEN [ok |-> TRUE, value |-> parsed.value]
        ELSE [ok |-> FALSE, value |-> PyInt(0)]

\* what _do_organize writes: b64encode(json.dumps(orga_table).encode()).decode()
EncodeOrga(orga_table) ==
    Utf8Decode(B64Encode(Utf8Encode(JsonDumps(AsValue(orga_table)))))

\* what print reads: json.loads(b64decode(text.encode()).decode())
DecodeOrga(text) ==
    LET raw == B64Decode(Utf8Encode(text))
    IN  IF raw.ok THEN JsonLoads(Utf8Decode(raw.bytes))
        ELSE [ok |-> FALSE, value |-> PyInt(0)]

(***************************************************************************)
(* The inputs: paranoia.yml's field declarations and the data files.       *)
(***************************************************************************)
Configs ==
    UNION {[1..n -> DataField] : n \in 0..MaxFields}

NamesOf(fields) == {fields[i].name : i \in DOMAIN fields}

\* the i-th entry of a field's data file: "A", "B", ... for player.txt and
\* "a", "b", ... for mission.txt
Entry(name, i) == <<(IF name = "player" THEN 64 ELSE 96) + i>>

\* n different entries, one per line
PlainFile(name, n) == [i \in 1..n |-> Entry(name, i)]

\* n entries, the first one twice
DupFile(name, n) == [i \in 1..n |-> Entry(name, IF i = 1 THEN 1 ELSE i - 1)]

\* two entries among padding and blank lines: " A ", " ", "", "B A\n"
PaddedFile(name) ==
    << <<32>> \o Entry(name, 1) \o <<32>>, <<32>>, <<>>,
       Entry(name, 2) \o <<32>> \o Entry(name, 1) \o <<10>> >>

SourceFiles(name) ==
    {NoFile} \cup {File(PlainFile(name, n)) : n \in 0..MaxEntries}
             \cup {File(DupFile(name, n)) : n \in {2, 3}}
             \cup {File(PaddedFile(name))}

\* the data files a run of _create_orga on `fields` opens
FilesFor(fields) ==
    IF HasDuplicateNames(fields) \/ WrongPlayerFieldCount(fields)
    THEN {[n \in NamesOf(fields) |-> NoFile]}
    ELSE {f \in [NamesOf(fields) -> UNION {SourceFiles(n) : n \in FieldNames}] :
             \A n \in NamesOf(fields) : f[n] \in SourceFiles(n)}

\* the print command has not decoded the organization file
NotLoaded == [done |-> FALSE, ok |-> FALSE, value |-> PyInt(0)]

(***************************************************************************)
(* Spec: one call of _create_orga on any configuration and data files.     *)
(***************************************************************************)
Init ==
    /\ config_exists = TRUE
    /\ paranoia_file \in Configs
    /\ data_files \in FilesFor(paranoia_file)
    /\ orga_file = NoFile
    /\ run = NoRun
    /\ wrote = FALSE
    /\ loaded = NotLoaded

CallCreateOrga ==
    /\ run = NoRun
    /\ CreateOrga(paranoia_file, data_files,
                  [NoRun EXCEPT !.cmd = "_create_orga"], run')
    /\ UNCHANGED <<config_exists, paranoia_file, data_files, orga_file, wrote, loaded>>

Next == CallCreateOrga

Spec == Init /\ [][Next]_vars

(***************************************************************************)
(* The organize and print commands.                                        *)
(***************************************************************************)
\* os.path.exists(orga_file_path) and not force
ForceRefused_Never(exists, force) ==
    FALSE

ForceRefused(exists, force) ==
    exists /\ ~force

\* _do_organize(root_dir, force, print_table), called by the command cmd.
\* print_table only prints the table (after a confirmation) and is left out.
DoOrganize(cmd, force) ==
    LET start == [NoRun EXCEPT !.cmd = cmd, !.force = force,
                               !.existed = orga_file.exists]
    IN  IF ~config_exists THEN
            /\ run' = Failed(start, "config_not_found")
            /\ wrote' = FALSE
            /\ orga_file' = orga_file
        ELSE IF ForceRefused(orga_file.exists, force) THEN
            /\ run' = Failed(start, "already_organized")
            /\ wrote' = FALSE
            /\ orga_file' = orga_file
        ELSE
            /\ CreateOrga(paranoia_file, data_files, start, run')
            /\ wrote' = (run'.err = "ok")
            /\ orga_file' = IF run'.err = "ok"
                            THEN File(EncodeOrga(run'.orga_table))
                            ELSE orga_file

\* paranoia organize [--force]
organize ==
    /\ \E force \in BOOLEAN : DoOrganize("organize", force)
    /\ loaded' = NotLoaded
    /\ UNCHANGED <<config_exists, paranoia_file, data_files>>

\* paranoia print: up to the decoded table that _create_pdf is given.
\* confirm is the answer to "Game not organized. Organize now?"
print ==
    /\ IF ~config_exists THEN
           /\ run' = Failed([NoRun EXCEPT !.cmd = "print"], "config_not_found")
           /\ wrote' = FALSE
           /\ loaded' = NotLoaded
           /\ UNCHANGED orga_file
       ELSE IF ~orga_file.exists THEN
           \E confirm \in BOOLEAN :
               IF confirm THEN
                   /\ DoOrganize("print", FALSE)
                   /\ loaded' = IF run'.err = "ok"
                                THEN [done |-> TRUE] @@ DecodeOrga(orga_file'.content)
                                ELSE NotLoaded
               ELSE
                   /\ run' = Failed([NoRun EXCEPT !.cmd = "print"], "not_organized")
                   /\ wrote' = FALSE
                   /\ loaded' = NotLoaded
                   /\ UNCHANGED orga_file
       ELSE
           /\ run' = Failed([NoRun EXCEPT !.cmd = "print", !.existed = TRUE], "ok")
           /\ loaded' = [done |-> TRUE] @@ DecodeOrga(orga_file.content)
           /\ wrote' = FALSE
           /\ UNCHANGED orga_file
    /\ UNCHANGED <<config_exists, paranoia_file, data_files>>

(***************************************************************************)
(* FsSpec: any sequence of organize and print commands on one root_dir.    *)
(***************************************************************************)
\* the largest number of entries in a data file of FsSpec
FsMaxEntries == 2

PlayerDecl ==
    [name |-> "player", is_player |-> TRUE, can_repeat |-> FALSE, can_skip |-> FALSE]

MissionDecl(is_player, can_repeat, can_skip) ==
    [name |-> "mission", is_player |-> is_player,
     can_repeat |-> can_repeat, can_skip |-> can_skip]

\* the configurations of FsSpec: the player field alone, the player field
\* and a mission field (strict, or can_repeat and can_skip), and two player
\* fields
FsConfigs ==
    { <<PlayerDecl>>,
      <<PlayerDecl, MissionDecl(FALSE, FALSE, FALSE)>>,
      <<PlayerDecl, MissionDecl(FALSE, TRUE, TRUE)>>,
      <<PlayerDecl, MissionDecl(TRUE, FALSE, FALSE)>> }

\* the data files of FsSpec: up to FsMaxEntries players, and no or one
\* mission
FsSourceFiles(name) ==
    {NoFile} \cup {File(PlainFile(name, n)) :
                      n \in 0..(IF name = "player" THEN FsMaxEntries ELSE 1)}

\* an organization file left by an earlier organization of two players
EarlierTable == << <<0, <<66>>, <<65>>>>, <<1, <<65>>, <<66>>>> >>

FsInit ==
    /\ config_exists \in BOOLEAN
    /\ paranoia_file \in FsConfigs
    /\ data_files \in {f \in [NamesOf(paranoia_file) ->
                                  UNION {FsSourceFiles(n) : n \in FieldNames}] :
                           \A n \in NamesOf(paranoia_file) : f[n] \in FsSourceFiles(n)}
    /\ orga_file \in {NoFile, File(EncodeOrga(EarlierTable))}
    /\ run = NoRun
    /\ wrote = FALSE
    /\ loaded = NotLoaded

FsNext == organize \/ print

FsSpec == FsInit /\ [][FsNext]_vars

(***************************************************************************)
(* CodecSpec: any well-formed table, written as _do_organize writes it and *)
(* read back as print reads it.                                            *)
(***************************************************************************)
\* the most rows of a table of CodecSpec
CodecMaxRows == 2
\* the most characters in all the strings of a table of CodecSpec
CodecMaxChars == 2

\* space, double quote, backslash, line feed, e-acute, U+1F600
CodecChars == {32, 34, 92, 10, 233, 128512}

\* the sequences of `cells` strings that hold at most `budget` characters
RECURSIVE CellTuples(_, _)
CellTuples(cells, budget) ==
    IF cells = 0 THEN {<<>>}
    ELSE UNION {LET others == CellTuples(cells - 1, budget - n)
                IN  {<<str>> \o rest : str \in [1..n -> CodecChars], rest \in others} :
                n \in 0..budget}

\* rows of an id, a player name and a target name; the ids are 0, 12, 24, ...
CodecTable(rows, cells) ==
    [r \in 1..rows |-> <<12 * (r - 1), cells[2 * r - 1], cells[2 * r]>>]

CodecInit ==
    /\ config_exists = TRUE
    /\ paranoia_file = <<PlayerDecl>>
    /\ data_files = [n \in {"player"} |-> NoFile]
    /\ orga_file = NoFile
    /\ \E rows \in 0..CodecMaxRows :
       \E cells \in CellTuples(2 * rows, CodecMaxChars) :
           run = [NoRun EXCEPT !.cmd = "organize", !.err = "ok",
                               !.player_count = rows,
                               !.orga_table = CodecTable(rows, cells)]
    /\ wrote = FALSE
    /\ loaded = NotLoaded

\* the with-block that ends _do_organize
Persist ==
    /\ ~orga_file.exists
    /\ orga_file' = File(EncodeOrga(run.orga_table))
    /\ wrote' = TRUE
    /\ UNCHANGED <<config_exists, paranoia_file, data_files, run, loaded>>

\* the with-block of print that reads the organization file
Load ==
    /\ orga_file.exists
    /\ ~loaded.done
    /\ loaded' = [done |-> TRUE] @@ DecodeOrga(orga_file.content)
    /\ UNCHANGED <<config_exists, paranoia_file, data_files, orga_file, run, wrote>>

CodecNext == Persist \/ Load

CodecSpec == CodecInit /\ [][CodecNext]_vars

(***************************************************************************)
(* What the claims speak of, read from the state.                          *)
(***************************************************************************)
\* _create_orga returned a table (run.orga_table)
Returned == run.cmd # "none" /\ run.err = "ok"

\* the data files were read and player_count computed
FilesRead == run.player_count >= 0

\* the entries read for the player field
PlayerEntries == run.field_data[PlayerFieldName(paranoia_file)]

NoRepeatedEntry(s) == \A i, j \in DOMAIN s : s[i] = s[j] => i = j

\* the declaration indexes of the fields that are not the player field, in
\* declaration order: the k-th one fills column 3 + k of the table
RECURSIVE OtherFieldIndexes(_, _)
OtherFieldIndexes(fields, i) ==
    IF i > Len(fields) THEN <<>>
    ELSE IF fields[i].is_player THEN OtherFieldIndexes(fields, i + 1)
    ELSE <<i>> \o OtherFieldIndexes(fields, i + 1)

\* how often v occurs in s
Count(s, v) == Cardinality({i \in DOMAIN s : s[i] = v})

\* column c of a table, from the first row to the last
Column(table, c) == [r \in 1..Len(table) |-> table[r][c]]

\* the entries read for the field declared at index i
SourceOf(i) == run.field_data[paranoia_file[i].name]

\* the rows a walk can stand on k steps after standing on one of `rows`,
\* a step going from a row to a row whose player name is its target name
RECURSIVE RowsAfter(_, _, _)
RowsAfter(table, rows, k) ==
    IF k = 0 THEN rows
    ELSE RowsAfter(table,
                   {q \in DOMAIN table : \E r \in rows : table[q][2] = table[r][3]},
                   k - 1)

NoSelfTarget(table) == \A r \in DOMAIN table : table[r][3] # table[r][2]

SingleCycle(table) ==
    \A r \in DOMAIN table : \A k \in 1..Len(table) :
        (r \in RowsAfter(table, {r}, k)) <=> (k = Len(table))

(***************************************************************************)
(* C1                                                                      *)
(***************************************************************************)
\* C1 as stated: in every table _create_orga returns for N >= 2 players, no
\* row's target name equals its own player name.
C1_NoSelfTarget_AsStated ==
    (Returned /\ run.player_count >= 2) => NoSelfTarget(run.orga_table)

\* C1, amended: in every table _create_orga returns for N >= 2 players whose
\* names in the player file are pairwise different, no row's target name
\* equals its own player name.
C1_NoSelfTarget ==
    (Returned /\ run.player_count >= 2 /\ NoRepeatedEntry(PlayerEntries))
        => NoSelfTarget(run.orga_table)

C1_Witness ==
    /\ Returned /\ run.player_count = 3 /\ NoRepeatedEntry(PlayerEntries)
    /\ NoSelfTarget(run.orga_table)

(***************************************************************************)
(* C2                                                                      *)
(***************************************************************************)
\* C2 as stated: in every table returned for N >= 2 players, the walk along
\* the targets from any row is back on that row after exactly N steps and
\* after no smaller positive number of steps.
C2_SingleCycle_AsStated ==
    (Returned /\ run.player_count >= 2) => SingleCycle(run.orga_table)

\* C2, amended: the same, for N >= 2 players whose names in the player file
\* are pairwise different.
C2_SingleCycle ==
    (Returned /\ run.player_count >= 2 /\ NoRepeatedEntry(PlayerEntries))
        => SingleCycle(run.orga_table)

C2_Witness ==
    /\ Returned /\ run.player_count = 3 /\ NoRepeatedEntry(PlayerEntries)
    /\ 1 \in RowsAfter(run.orga_table, {1}, 3)
    /\ 1 \notin RowsAfter(run.orga_table, {1}, 2)

(***************************************************************************)
(* C5                                                                      *)
(***************************************************************************)
HasTooMany(i) ==
    ~paranoia_file[i].can_skip /\ Len(SourceOf(i)) > run.player_count

HasTooFew(i) ==
    ~paranoia_file[i].can_repeat /\ Len(SourceOf(i)) < run.player_count

HasPlayerFlags(i) ==
    paranoia_file[i].is_player
        /\ (paranoia_file[i].can_repeat \/ paranoia_file[i].can_skip)

\* C5 as stated: a field with can_skip = false and more than N entries ends
\* the run with the too-many-entries error, a field with can_repeat = false
\* and fewer than N entries ends it with the too-few-entries error, and no
\* table is returned.
C5_CountErrors_AsStated ==
    FilesRead => \A i \in DOMAIN paranoia_file :
        /\ HasTooMany(i) => (run.err = "too_many" /\ run.orga_table = <<>>)
        /\ HasTooFew(i) => (run.err = "too_few" /\ run.orga_table = <<>>)

\* C5, amended: such a field ends the run with an error of the validation
\* loop and no table is returned; the error is that of the first check that
\* fails in declaration order (per field: player flags, too many, too few),
\* so it is this field's too-many or too-few error when no field declared
\* before it fails a check and it is not a player field with flags set.
C5_CountErrors ==
    FilesRead => \A i \in DOMAIN paranoia_file :
        (HasTooMany(i) \/ HasTooFew(i)) =>
            /\ run.err \in {"player_flags", "too_many", "too_few"}
            /\ run.orga_table = <<>>
            /\ ( (/\ ~HasPlayerFlags(i)
                  /\ \A j \in 1..(i - 1) :
                        ~(HasPlayerFlags(j) \/ HasTooMany(j) \/ HasTooFew(j)))
                   => /\ run.err_field = i
                      /\ run.err = IF HasTooMany(i) THEN "too_many" ELSE "too_few" )

C5_Witness ==
    /\ FilesRead /\ run.player_count = 2
    /\ run.err = "too_many" /\ run.err_field = 2
    /\ HasTooMany(2) /\ Len(SourceOf(2)) = 3

(***************************************************************************)
(* C6                                                                      *)
(***************************************************************************)
\* C6: in a returned table for N players, every field that is not the
\* player field fills its column with exactly N values, one per row, each
\* of them an entry of that field's own data file.
C6_FieldValues ==
    Returned =>
        LET others == OtherFieldIndexes(paranoia_file, 1)
        IN  /\ Len(run.orga_table) = run.player_count
            /\ \A r \in DOMAIN run.orga_table :
                   Len(run.orga_table[r]) = 3 + Len(others)
            /\ \A k \in DOMAIN others :
                   /\ Len(Column(run.orga_table, 3 + k)) = run.player_count
                   /\ \A r \in DOMAIN run.orga_table :
                          run.orga_table[r][3 + k] \in Range(SourceOf(others[k]))

\* a can_repeat, not can_skip field with N - 2 entries filled N = 3 rows
C6_Witness ==
    /\ Returned /\ run.player_count = 3 /\ Len(paranoia_file) = 2
    /\ LET others == OtherFieldIndexes(paranoia_file, 1)
       IN  /\ Len(others) = 1
           /\ paranoia_file[others[1]].can_repeat
           /\ ~paranoia_file[others[1]].can_skip
           /\ Len(SourceOf(others[1])) = 1
           /\ Len(Column(run.orga_table, 4)) = 3

(***************************************************************************)
(* C7                                                                      *)
(***************************************************************************)
\* C7: the id column of a returned table, read in row order, is 0, 1, ...,
\* N-1, and the row with id i holds the player, the target and the field
\* values that stood at the position of i in id_list before the sort.
C7_IdOrder ==
    Returned =>
        /\ Len(run.orga_table) = run.player_count
        /\ \A r \in DOMAIN run.orga_table : run.orga_table[r][1] = r - 1
        /\ \A r \in DOMAIN run.orga_table :
               \E i \in DOMAIN run.id_list :
                   /\ run.id_list[i] = r - 1
                   /\ run.orga_table[r] =
                          <<run.id_list[i], run.player_list[i], run.target_list[i]>>
                              \o [k \in DOMAIN run.other_lists |-> run.other_lists[k][i]]

C7_Witness ==
    /\ Returned /\ run.player_count = 3
    /\ run.id_list = <<2, 0, 1>>
    /\ Column(run.orga_table, 1) = <<0, 1, 2>>
    /\ run.orga_table[1][2] = run.player_list[2]

(***************************************************************************)
(* C8                                                                      *)
(***************************************************************************)
\* the run ended in one of the failures C8 lists
ValidationClassFailure ==
    \/ run.err \in {"duplicate_names", "player_field_count", "player_flags",
                    "data_not_found", "too_many", "too_few"}
    \/ run.err \notin {"ok", "none"} /\ run.player_count \in {0, 1}
    \/ /\ run.err = "ValueError"
       /\ \E i \in DOMAIN paranoia_file :
              /\ ~paranoia_file[i].is_player
              /\ paranoia_file[i].can_repeat /\ paranoia_file[i].can_skip
              /\ Len(SourceOf(i)) < run.player_count

\* C8: a run that ends in a validation-class failure has made no random
\* draw.
C8_FailureBeforeDraws ==
    ValidationClassFailure => run.draws = 0

(***************************************************************************)
(* C10                                                                     *)
(***************************************************************************)
\* C10: in a returned table, a field with can_skip = false has every entry
\* of its data file in its column at least as often as in the file, and a
\* field with can_repeat = false has every entry at most as often.
C10_UseOfEntries ==
    Returned =>
        LET others == OtherFieldIndexes(paranoia_file, 1)
        IN  \A k \in DOMAIN others :
                LET field == paranoia_file[others[k]]
                    source == SourceOf(others[k])
                    out == Column(run.orga_table, 3 + k)
                IN  /\ ~field.can_skip =>
                           \A v \in Range(source) : Count(out, v) >= Count(source, v)
                    /\ ~field.can_repeat =>
                           \A v \in Range(source) : Count(out, v) <= Count(source, v)

\* a can_skip, not can_repeat field with 3 entries, one of them twice, left
\* one unused for N = 2 players
C10_Witness ==
    /\ Returned /\ run.player_count = 2 /\ Len(paranoia_file) = 2
    /\ LET others == OtherFieldIndexes(paranoia_file, 1)
       IN  /\ Len(others) = 1
           /\ ~paranoia_file[others[1]].can_repeat
           /\ paranoia_file[others[1]].can_skip
           /\ Len(SourceOf(others[1])) = 3
           /\ ~NoRepeatedEntry(SourceOf(others[1]))
           /\ NoRepeatedEntry(Column(run.orga_table, 4))

(***************************************************************************)
(* C3                                                                      *)
(***************************************************************************)
\* C3: a run of _do_organize that reads a player file of fewer than 2
\* entries fails: _create_orga returns no table and the organization file
\* is not written.
C3_InsufficientParticipants ==
    (run.cmd \in {"organize", "print"} /\ run.player_count \in {0, 1})
        => (run.err # "ok" /\ run.orga_table = <<>> /\ ~wrote)

(***************************************************************************)
(* C4                                                                      *)
(***************************************************************************)
\* C4: a step of organize or print changes or writes the organization file
\* only as a run of _do_organize that validated and generated a table and
\* wrote that table, with force set if the file existed before; a run that
\* fails, and a print that finds the file, leave the file as it was.
C4_ArtifactFrame ==
    [][ /\ (orga_file' # orga_file \/ wrote') =>
              /\ run'.cmd \in {"organize", "print"}
              /\ run'.err = "ok"
              /\ Len(run'.orga_table) = run'.player_count
              /\ orga_file.exists => run'.force
              /\ orga_file' = File(EncodeOrga(run'.orga_table))
        /\ (run'.err # "ok" \/ (run'.cmd = "print" /\ orga_file.exists)) =>
              (orga_file' = orga_file /\ ~wrote')
      ]_vars

\* a forced organize overwrote the earlier organization file
C4_Witness ==
    /\ wrote /\ run.cmd = "organize" /\ run.existed /\ run.force
    /\ run.err = "ok" /\ run.player_count = 2
    /\ orga_file = File(EncodeOrga(run.orga_table))
    /\ orga_file # File(EncodeOrga(EarlierTable))

(***************************************************************************)
(* C9                                                                      *)
(***************************************************************************)
\* C9: the table print decodes from the text _do_organize wrote is the
\* table that was written.
C9_RoundTrip ==
    loaded.done => (loaded.ok /\ loaded.value = AsValue(run.orga_table))

\* a table of two rows with a double quote and a space in its strings was
\* written and read back
C9_Witness ==
    /\ loaded.done /\ loaded.ok
    /\ Len(run.orga_table) = 2
    /\ run.orga_table[1][2] = <<34>>
    /\ run.orga_table[2][3] = <<32>>
    /\ loaded.value.v[1].v[2].v = <<34>>

====
